---- MODULE Spec2Model ----
(***************************************************************************)
(* Order lifecycle of the cross-chain swap relayer (AuctionService over    *)
(* the DynamoDB-backed DatabaseService).  One order id is followed through *)
(* the API handlers and the reaper.  Every handler is an async function:   *)
(* it is cut at its awaits on the store, the chain and the bus, and the    *)
(* OrderData object it holds between awaits is a private copy.             *)
(*                                                                         *)
(* Time is counted in units of 60 000 ms (Date.now() / 60000); the clock   *)
(* starts at 1 so that 0 is the falsy "undefined" of an optional number.   *)
(***************************************************************************)
EXTENDS Integers, FiniteSets, Sequences, TLC

\* ---- bounds of the exploration ----
MaxTime == 7
AdmitUntil == 1

\* ---- program constants, in clock units ----
CommitmentWindow == 5
PendingRevealDelay == 2
CompetitionWindow == 5
AuctionDurationSeconds == 1
Undefined == 0

\* ---- inputs ----
Reqs == {"q1", "q2"}
Ticks == {"t1", "t2"}
Resolvers == {"rA", "rB"}
\* the one signed intent: minAcceptablePrice 9, oracle quote 10, orderDuration 5
SwapRequest == [minAcceptablePrice |-> 9, marketPrice |-> 10, orderDuration |-> 5]
Quotes == {8, 9, 10}
TxHashes == {"good"}
\* the timestamp field every commitment request carries
CommitmentTimestamp == 1

VARIABLES item, commitments, now, req, tick, chain, bus, verified, reaped, ids,
          gasless

vars == <<item, commitments, now, req, tick, chain, bus, verified, reaped, ids,
          gasless>>

\* ---- the Trades item and the OrderData object ----

\* An item of the Trades table that has no attribute but its key.
EmptyItem ==
  [exists |-> FALSE, secret |-> FALSE, status |-> "none", resolver |-> "none",
   createdAt |-> Undefined, expiresAt |-> Undefined,
   committedPrice |-> Undefined, commitmentTime |-> Undefined,
   commitmentDeadline |-> Undefined,
   srcEscrowAddress |-> "none", dstEscrowAddress |-> "none",
   userFundsMovedAt |-> Undefined,
   srcChainTxHash |-> "none", dstChainTxHash |-> "none",
   secretRevealedAt |-> Undefined, secretRevealTxHash |-> "none"]

\* itemToOrderData copies the order attributes and none of the secret ones.
itemToOrderData(it) == [it EXCEPT !.secret = FALSE]

\* saveOrder: a Put of the order attributes; the Put replaces the whole item.
saveOrderPut(order) == [order EXCEPT !.exists = TRUE, !.secret = FALSE]

\* The competitionDeadline of the stored order: saveOrder writes a fixed list of
\* attributes and competitionDeadline is none of them, so getOrder returns an
\* order without it.
storedCompetitionDeadline(it) ==
  IF "competitionDeadline" \in DOMAIN saveOrderPut(it)
  THEN saveOrderPut(it).competitionDeadline
  ELSE Undefined

\* saveSecret: an Update that sets the secret attributes of the item.
saveSecret(it) == [it EXCEPT !.exists = TRUE, !.secret = TRUE]

\* getSecret: the secret attribute of the item, or null.
getSecret(it) == it.exists /\ it.secret

\* markSecretRevealed: an Update that sets secretRevealedAt of the item.
markSecretRevealed(it, t) == [it EXCEPT !.exists = TRUE, !.secretRevealedAt = t]

\* order.settlementTx is an object once one of its hashes was stored.
HasSettlementTx(order) ==
  order.srcChainTxHash # "none" \/ order.dstChainTxHash # "none"

\* ---- status-indexed queries of the reaper ----
getExpiredOrders(it, t) ==
  it.exists /\ it.status = "active" /\ it.expiresAt < t

\* (variant: the deadline comparison turned round)
getOrdersWithExpiredCommitments_notYetDue(it, t) ==
  it.exists /\ it.status = "committed" /\ it.commitmentDeadline > t

getOrdersWithExpiredCommitments(it, t) ==
  it.exists /\ it.status = "committed" /\ it.commitmentDeadline < t

getOrdersPendingSecretReveal(it, t) ==
  /\ it.exists /\ it.status = "settling"
  /\ HasSettlementTx(it)
  /\ it.secretRevealedAt = Undefined
  /\ it.userFundsMovedAt # Undefined
  /\ it.userFundsMovedAt < t - PendingRevealDelay

\* ---- the active-orders listing ----
\* queryByStatus: the orders of the status index entry
queryByStatus(it, status) ==
  IF it.exists /\ it.status = status THEN {itemToOrderData(it)} ELSE {}

\* getAllActiveOrders: the active orders and the rescue_available orders
getAllActiveOrders(it) ==
  queryByStatus(it, "active") \cup queryByStatus(it, "rescue_available")

\* ---- commitment audit rows ----
\* saveResolverCommitment: Put of a row keyed by (order, resolver, timestamp);
\* the timestamp is the request's own field.
saveResolverCommitment(rows, r, ts) ==
  {c \in rows : ~(c.resolverAddress = r /\ c.timestamp = ts)}
    \cup {[resolverAddress |-> r, timestamp |-> ts, status |-> "active"]}

\* updateCommitmentStatus: every row of that resolver gets the status.
updateCommitmentStatus(rows, r, st) ==
  {IF c.resolverAddress = r THEN [c EXCEPT !.status = st] ELSE c : c \in rows}

\* ---- pricing (DutchAuctionService) ----
createAuctionParams(minPrice, marketPrice, duration) ==
  [startPrice |-> IF marketPrice > minPrice THEN marketPrice ELSE minPrice,
   endPrice |-> minPrice, duration |-> duration]

AuctionOf(order) ==
  [createAuctionParams(SwapRequest.minAcceptablePrice, SwapRequest.marketPrice,
                       AuctionDurationSeconds)
     EXCEPT !.duration = AuctionDurationSeconds] @@ [startTime |-> order.createdAt]

getCurrentPrice(a, t) ==
  IF t >= a.startTime + a.duration THEN a.endPrice
  ELSE a.startPrice - ((a.startPrice - a.endPrice) * (t - a.startTime)) \div a.duration

validateResolverPrice(a, quoted, t) ==
  a.endPrice <= quoted /\ quoted <= getCurrentPrice(a, t)

\* ---- the GaslessAuction contract ----
\* uint256 is narrowed to UintBits bits; checked arithmetic reverts on overflow
UintBits == 5
UintMax == 2 ^ UintBits - 1
Revert == -1
StartPrices == {2, 10, 20}
EndPrices == {1, 9}
Durations == {1, 2, 3}

\* the zero-initialised entry of the auctions mapping
NoAuction ==
  [active |-> FALSE, startPrice |-> 0, endPrice |-> 0, startTime |-> 0, duration |-> 0]

\* (variant: the test for the elapsed auction left out)
GaslessAuction_getCurrentPrice_noElapsedTest(auction, timestamp) ==
  LET elapsed == timestamp - auction.startTime
      product == (auction.startPrice - auction.endPrice) * elapsed
  IN IF ~auction.active THEN Revert
     ELSE IF product > UintMax THEN Revert
     ELSE IF product \div auction.duration > auction.startPrice THEN Revert
     ELSE auction.startPrice - product \div auction.duration

\* getCurrentPrice(auctionId) at block.timestamp
GaslessAuction_getCurrentPrice(auction, timestamp) ==
  LET elapsed == timestamp - auction.startTime
      product == (auction.startPrice - auction.endPrice) * elapsed
  IN IF ~auction.active THEN Revert
     ELSE IF elapsed >= auction.duration THEN auction.endPrice
     ELSE IF product > UintMax THEN Revert
     ELSE auction.startPrice - product \div auction.duration

\* ---- chain gateway ----
\* verifyEscrowWithDeposit: logs and returns true, whatever the escrow holds
verifyEscrowWithDeposit(deposited) == TRUE

\* waitForConfirmations: getTransactionReceipt finds no receipt for a hash
\* that is undefined or unknown to the chain, and the call throws.
waitForConfirmations(txHash, chainOk) == txHash = "good" /\ chainOk

\* checkAllowance: the allowance read from the token contract; when the read
\* fails the catch block returns ethers.MaxUint256.
ReadFailed == -1
SrcAmount == 1
AllowanceReads == {ReadFailed, 0, SrcAmount}
checkAllowance(read) == IF read = ReadFailed THEN UintMax ELSE read

\* "BigInt(approvedAmount) < BigInt(swapRequest.srcAmount)" throws
allowanceCovers(read) == ~(checkAllowance(read) < SrcAmount)

\* verifyEscrowBalance: "balance >= expectedAmountBN"
verifyEscrowBalance(balance, expectedAmount) == balance >= expectedAmount

\* verifyBothEscrowsFunded: both balance reads are at least the expected amount.
\* (variant: the destination balance is not compared)
verifyBothEscrowsFunded_srcOnly(srcFunded, dstFunded) == srcFunded
verifyBothEscrowsFunded(srcFunded, dstFunded) == srcFunded /\ dstFunded

\* ---- order ids (EIP712Utils) ----
\* The intents a maker submits, and the HTLCOrders a maker signs (an intent
\* with the nonce and deadline the maker chose).
Coordinators == {"k1", "k2"}
Intents ==
  {[userAddress |-> "maker", srcChainId |-> c, orderDuration |-> SwapRequest.orderDuration]
     : c \in {1, 2}}
Nonces == {1, 2}
SignedOrders ==
  {[intent |-> i, nonce |-> n, deadline |-> n + i.orderDuration]
     : i \in Intents, n \in Nonces}

\* createHTLCOrder: "nonce || Date.now().toString()" and
\* "deadline || Math.floor(Date.now() / 1000) + orderDuration"
createHTLCOrder(intent, nonce, deadline, t) ==
  [intent |-> intent,
   nonce |-> IF nonce # Undefined THEN nonce ELSE t,
   deadline |-> IF deadline # Undefined THEN deadline ELSE t + intent.orderDuration]

\* getDomain: chain id and the escrow factory configured for that chain
getDomain(chainId) == [chainId |-> chainId, verifyingContract |-> <<"factory", chainId>>]

\* getOrderHash: the typed-data hash, taken to be free of collisions
getOrderHash(order, domain) == <<order, domain>>

\* what a maker submits through createOrder: the intent alone
Submitted(i) == [intent |-> i, nonce |-> Undefined, deadline |-> Undefined]

\* ---- the order broadcast ----
\* The paths of the values in the OrderData object that an admission builds:
\* the SwapRequest made from the signed HTLCOrder and the signature, and the
\* order's own fields.  The preimage is a separate argument of the admission
\* and is no part of OrderData.
AdmittedOrderData ==
  {<<"orderId">>, <<"marketPrice">>, <<"status">>, <<"createdAt">>, <<"expiresAt">>,
   <<"auctionStartPrice">>, <<"auctionEndPrice">>, <<"auctionDuration">>}
  \cup {<<"swapRequest", f>> :
          f \in {"userAddress", "signature", "srcChainId", "srcToken", "srcAmount",
                 "dstChainId", "dstToken", "secretHash", "minAcceptablePrice",
                 "orderDuration"}}

\* broadcastOrder: the SQSOrderMessage that is serialised to the queue
broadcastOrder(orderData) ==
  {<<"orderId">>, <<"timestamp">>, <<"auctionStartPrice">>, <<"auctionEndPrice">>,
   <<"auctionDuration">>, <<"srcTokenDecimals">>, <<"dstTokenDecimals">>}
  \cup {<<"orderData">> \o path : path \in orderData}

\* ---- handler slots ----
\* sigOk, hashOk: what the request carries (a signature that recovers to the
\* maker, a preimage that hashes to secretHash); depositsOk: both escrows of
\* an escrowsReady hold their safety deposit; dstCovers: the destination
\* escrow of a notifySettlement holds the amount the commitment implies;
\* error: the Error thrown
IdleReq ==
  [op |-> "idle", pc |-> "idle", order |-> EmptyItem, resolverAddress |-> "none",
   acceptedPrice |-> Undefined, stale |-> FALSE,
   sigOk |-> TRUE, hashOk |-> TRUE, depositsOk |-> TRUE, dstCovers |-> TRUE,
   error |-> "none", disclosed |-> "none"]

\* a handler that threw: the route's catch block answers with the error
Thrown(s, e) == [req[s] EXCEPT !.pc = "done", !.error = e, !.order = EmptyItem,
                               !.stale = FALSE]

\* error: the Error that sent finalizeSettlement to its catch block
IdleTick ==
  [pc |-> "idle", now |-> Undefined, order |-> EmptyItem, stale |-> FALSE,
   error |-> "none"]

\* A copy held by another handler is out of date once the item is written.
HoldsCopy ==
  {"save", "moveSave", "publishSecret", "publishSave", "expiredSave",
   "lapsedSave", "confirm", "secret", "reveal", "completedSave", "failSave"}
Staled(r) == IF r.pc \in HoldsCopy THEN [r EXCEPT !.stale = TRUE] ELSE r

ReqWrites(s, rec) == [x \in Reqs |-> IF x = s THEN rec ELSE Staled(req[x])]
ReqOthersStale == [x \in Reqs |-> Staled(req[x])]
TickWrites(t, rec) == [x \in Ticks |-> IF x = t THEN rec ELSE Staled(tick[x])]
TickOthersStale == [x \in Ticks |-> Staled(tick[x])]

\* Handlers are anonymous: a new one takes the first free slot.  Handlers are
\* interleaved pairwise: a new one starts while at most one other is running.
InFlight ==
  Cardinality({s \in Reqs : req[s].pc # "idle"})
    + Cardinality({t \in Ticks : tick[t].pc # "idle"})
\* A handler that threw answers in the same turn of the event loop: no other
\* handler starts between the throw and the response.
NoneAnswering == \A x \in Reqs : req[x].pc # "done"
FirstFreeReq(s) ==
  /\ req[s].pc = "idle" /\ (s = "q2" => req["q1"].pc # "idle")
  /\ InFlight <= 1
  /\ NoneAnswering
\* A request that is refused at its first read writes nothing; such requests
\* are taken while no other handler is running, and so is a notification whose
\* destination balance is short of the committed amount.
Refused(e) == e # "none" => InFlight = 0
FirstFreeTick(t) ==
  /\ tick[t].pc = "idle" /\ (t = "t2" => tick["t1"].pc # "idle")
  /\ InFlight <= 1
  /\ NoneAnswering

Init ==
  /\ item = EmptyItem
  /\ commitments = {}
  /\ now = 1
  /\ req = [s \in Reqs |-> IdleReq]
  /\ tick = [t \in Ticks |-> IdleTick]
  /\ chain = [claimed |-> FALSE, revealRejected |-> FALSE, unconfirmed |-> FALSE]
  /\ bus = [orders |-> FALSE, orderMessage |-> {}, secret |-> FALSE,
            competitionDeadline |-> Undefined]
  /\ verified = FALSE
  /\ reaped = "none"
  /\ ids = [k \in Coordinators |-> {}]
  /\ gasless = [auction |-> NoAuction, calls |-> {}]

\* ---- the clock ----
Advance ==
  /\ now < MaxTime
  /\ \A s \in Reqs : req[s].pc = "idle"
  /\ \A t \in Ticks : tick[t].pc = "idle"
  /\ now' = now + 1
  /\ UNCHANGED <<gasless, ids, item, commitments, req, tick, chain, bus, verified, reaped>>

\* ---- createOrder / createOrderFromHTLC ----
\* verifySignature, then the comparison of keccak256(secret) with secretHash
AdmitChecks_signatureOnly(sigOk, hashOk) ==
  IF ~sigOk THEN "Invalid EIP-712 signature" ELSE "none"
AdmitChecks(sigOk, hashOk) ==
  IF ~sigOk THEN "Invalid EIP-712 signature"
  ELSE IF ~hashOk THEN "Secret hash mismatch" ELSE "none"

\* up to saveSecret: when the signature and hash checks pass, the secret is
\* stored
AdmitSaveSecret(s) ==
  /\ FirstFreeReq(s)
  /\ now <= AdmitUntil
  /\ \E sigOk, hashOk \in BOOLEAN :
       LET r == [IdleReq EXCEPT !.op = "admit", !.sigOk = sigOk, !.hashOk = hashOk]
       IN IF AdmitChecks(sigOk, hashOk) = "none"
          THEN /\ item' = saveSecret(item)
               /\ req' = ReqWrites(s, [r EXCEPT !.pc = "allowance"])
               /\ tick' = TickOthersStale
          ELSE /\ Refused(AdmitChecks(sigOk, hashOk))
               /\ req' = [req EXCEPT ![s] =
                    [r EXCEPT !.pc = "done", !.error = AdmitChecks(sigOk, hashOk)]]
               /\ UNCHANGED <<item, tick>>
  /\ UNCHANGED <<gasless, ids, commitments, now, chain, bus, verified, reaped>>

\* checkAllowance, then saveOrder of a fresh active order and the broadcast
AdmitSaveOrder(s) ==
  /\ req[s].op = "admit" /\ req[s].pc = "allowance"
  /\ \E read \in AllowanceReads :
       IF allowanceCovers(read)
       THEN /\ item' = saveOrderPut([EmptyItem EXCEPT
                         !.status = "active",
                         !.createdAt = now,
                         !.expiresAt = now + SwapRequest.orderDuration])
            /\ bus' = [bus EXCEPT !.orders = TRUE,
                                  !.orderMessage = broadcastOrder(AdmittedOrderData)]
            /\ req' = ReqWrites(s, IdleReq)
            /\ tick' = TickOthersStale
       ELSE /\ req' = [req EXCEPT ![s] = Thrown(s, "Insufficient allowance")]
            /\ UNCHANGED <<item, bus, tick>>
  /\ UNCHANGED <<gasless, ids, commitments, now, chain, verified, reaped>>

\* ---- GET /order-secret ----
\* the route's checks on the order that getOrder returned
orderSecretChecks_anyRequester(order, r) ==
  IF ~order.exists THEN "Order not found"
  ELSE IF order.status # "completed" THEN "Secret not yet revealed"
  ELSE "none"
orderSecretChecks(order, r) ==
  IF ~order.exists THEN "Order not found"
  ELSE IF order.resolver # r THEN "Unauthorized - not the committed resolver"
  ELSE IF order.status # "completed" THEN "Secret not yet revealed"
  ELSE "none"

\* getRevealedSecretInfo: the reveal transaction of a completed order, or null
getRevealedSecretInfo(order) ==
  IF order.exists /\ order.status = "completed" /\ order.secretRevealTxHash # "none"
  THEN order.secretRevealTxHash ELSE "none"

OrderSecretRead(s) ==
  /\ FirstFreeReq(s)
  /\ \E r \in Resolvers :
       LET order == itemToOrderData(item)
           e == orderSecretChecks(order, r)
           q == [IdleReq EXCEPT !.op = "orderSecret", !.resolverAddress = r]
       IN /\ Refused(e)
          /\ req' = [req EXCEPT ![s] =
               IF e = "none" THEN [q EXCEPT !.pc = "secretInfo"]
               ELSE [q EXCEPT !.pc = "done", !.error = e]]
  /\ UNCHANGED <<gasless, ids, item, commitments, now, tick, chain, bus, verified, reaped>>

\* the second getOrder, inside getRevealedSecretInfo, and the response
OrderSecretInfo(s) ==
  /\ req[s].op = "orderSecret" /\ req[s].pc = "secretInfo"
  /\ LET info == getRevealedSecretInfo(itemToOrderData(item)) IN
     req' = [req EXCEPT ![s] =
       IF info = "none" THEN Thrown(s, "Secret reveal info not found")
       ELSE [req[s] EXCEPT !.pc = "done", !.disclosed = info]]
  /\ UNCHANGED <<gasless, ids, item, commitments, now, tick, chain, bus, verified, reaped>>

\* the response is sent
Respond(s) ==
  /\ req[s].pc = "done"
  /\ req' = [req EXCEPT ![s] = IdleReq]
  /\ UNCHANGED <<gasless, ids, item, commitments, now, tick, chain, bus, verified, reaped>>

\* ---- commitResolver ----
\* the checks on the order that getOrder returned
\* (variant: the price is not validated)
commitResolverChecks_anyPrice(order, quoted, t) ==
  IF ~order.exists THEN "Order not found"
  ELSE IF order.status # "active" THEN "Order already committed or completed"
  ELSE "none"
\* (variant: the status is not compared)
commitResolverChecks_anyStatus(order, quoted, t) ==
  IF ~order.exists THEN "Order not found"
  ELSE IF ~validateResolverPrice(AuctionOf(order), quoted, t) THEN "Invalid price"
  ELSE "none"
commitResolverChecks(order, quoted, t) ==
  IF ~order.exists THEN "Order not found"
  ELSE IF order.status # "active" THEN "Order already committed or completed"
  ELSE IF ~validateResolverPrice(AuctionOf(order), quoted, t) THEN "Invalid price"
  ELSE "none"

\* getOrder and a failed check: the handler throws
CommitRefused(s) ==
  /\ FirstFreeReq(s)
  /\ \E r \in Resolvers, quoted \in Quotes :
       LET e == commitResolverChecks(itemToOrderData(item), quoted, now) IN
       /\ e # "none"
       /\ Refused(e)
       /\ req' = [req EXCEPT ![s] =
            [IdleReq EXCEPT !.op = "commit", !.pc = "done", !.error = e,
               !.resolverAddress = r, !.acceptedPrice = quoted]]
  /\ UNCHANGED <<gasless, ids, item, commitments, now, tick, chain, bus, verified, reaped>>

\* getOrder, the status check, the price check; the copy is updated
CommitRead(s) ==
  /\ FirstFreeReq(s)
  /\ \E r \in Resolvers, quoted \in Quotes :
       LET order == itemToOrderData(item) IN
       /\ commitResolverChecks(order, quoted, now) = "none"
       /\ req' = [req EXCEPT ![s] =
            [IdleReq EXCEPT !.op = "commit", !.pc = "save",
               !.resolverAddress = r, !.acceptedPrice = quoted,
               !.order = [order EXCEPT !.status = "committed",
                            !.resolver = r, !.committedPrice = quoted,
                            !.commitmentTime = now,
                            !.commitmentDeadline = now + CommitmentWindow]]]
  /\ UNCHANGED <<gasless, ids, item, commitments, now, tick, chain, bus, verified, reaped>>

CommitSave(s) ==
  /\ req[s].op = "commit" /\ req[s].pc = "save"
  /\ item' = saveOrderPut(req[s].order)
  /\ req' = ReqWrites(s, [req[s] EXCEPT !.pc = "audit", !.order = EmptyItem])
  /\ tick' = TickOthersStale
  /\ UNCHANGED <<gasless, ids, commitments, now, chain, bus, verified, reaped>>

CommitAudit(s) ==
  /\ req[s].op = "commit" /\ req[s].pc = "audit"
  /\ commitments' = saveResolverCommitment(commitments, req[s].resolverAddress,
                                           CommitmentTimestamp)
  /\ req' = [req EXCEPT ![s] = IdleReq]
  /\ UNCHANGED <<gasless, ids, item, now, tick, chain, bus, verified, reaped>>

\* ---- escrowsReady and moveUserFunds ----
\* the checks on the order that getOrder returned (null when no item exists)
escrowsReadyChecks_anyResolver(order, r) ==
  IF ~order.exists THEN "Order not found"
  ELSE IF order.status # "committed" THEN "Order not in committed state"
  ELSE "none"
escrowsReadyChecks(order, r) ==
  IF ~order.exists THEN "Order not found"
  ELSE IF order.status # "committed" THEN "Order not in committed state"
  ELSE IF order.resolver # r THEN "Unauthorized resolver"
  ELSE "none"

\* getOrder, the status and resolver checks, both verifyEscrowWithDeposit
\* calls; the copy gets the escrow addresses
EscrowsRead(s) ==
  /\ FirstFreeReq(s)
  /\ \E r \in Resolvers, srcDeposited, dstDeposited \in BOOLEAN :
       LET order == itemToOrderData(item)
           checks == escrowsReadyChecks(order, r)
           e == IF checks # "none" THEN checks
                ELSE IF ~verifyEscrowWithDeposit(srcDeposited)
                        \/ ~verifyEscrowWithDeposit(dstDeposited)
                THEN "Invalid escrow deployment or safety deposits"
                ELSE "none"
           q == [IdleReq EXCEPT !.op = "escrows", !.resolverAddress = r,
                   !.depositsOk = IF checks = "none"
                                  THEN srcDeposited /\ dstDeposited ELSE TRUE]
       IN /\ Refused(e)
          /\ req' = [req EXCEPT ![s] =
            IF e = "none"
            THEN [q EXCEPT !.pc = "save",
                    !.order = [order EXCEPT !.srcEscrowAddress = "src",
                                            !.dstEscrowAddress = "dst"]]
            ELSE [q EXCEPT !.pc = "done", !.error = e]]
  /\ UNCHANGED <<gasless, ids, item, commitments, now, tick, chain, bus, verified, reaped>>

EscrowsSave(s) ==
  /\ req[s].op = "escrows" /\ req[s].pc = "save"
  /\ item' = saveOrderPut(req[s].order)
  /\ req' = ReqWrites(s, [req[s] EXCEPT !.pc = "moveRead", !.order = EmptyItem,
                                          !.depositsOk = TRUE])
  /\ tick' = TickOthersStale
  /\ UNCHANGED <<gasless, ids, commitments, now, chain, bus, verified, reaped>>

\* moveUserFunds: getOrder, then transferUserFundsToEscrow on the chain; the
\* copy becomes settling when the transfer returned a hash, and the handler
\* throws when the chain rejected the transfer
MoveUserFundsTransfer(s) ==
  /\ req[s].op = "escrows" /\ req[s].pc = "moveRead"
  /\ LET order == itemToOrderData(item) IN
     \E transferOk \in BOOLEAN :
       IF ~item.exists
       THEN req' = [req EXCEPT ![s] = Thrown(s, "Order not found")]
       ELSE IF order.srcEscrowAddress = "none"
       THEN req' = [req EXCEPT ![s] = Thrown(s, "Source escrow not set")]
       ELSE IF ~transferOk
       THEN req' = [req EXCEPT ![s] = Thrown(s, "Failed to transfer user funds")]
       ELSE req' = [req EXCEPT ![s] =
              [req[s] EXCEPT !.pc = "moveSave", !.stale = FALSE,
                 !.order = [order EXCEPT !.status = "settling",
                              !.userFundsMovedAt = now,
                              !.srcChainTxHash = "good"]]]
  /\ UNCHANGED <<gasless, ids, item, commitments, now, tick, chain, bus, verified, reaped>>

MoveUserFundsSave(s) ==
  /\ req[s].op = "escrows" /\ req[s].pc = "moveSave"
  /\ item' = saveOrderPut(req[s].order)
  /\ req' = ReqWrites(s, IdleReq)
  /\ tick' = TickOthersStale
  /\ UNCHANGED <<gasless, ids, commitments, now, chain, bus, verified, reaped>>

\* ---- notifySettlement and publishSecretForCompetition ----
\* what the destination escrow holds, and the dstTokenAmount a notification
\* names
DstBalances == {1, 10}
DstTokenAmounts == {1, 10}

\* the destination amount of the commitment: srcAmount (one unit of the price
\* scale) at the committed price
expectedDstAmount(order) == order.committedPrice

notifySettlementChecks(order, r) ==
  IF ~order.exists THEN "Order not found"
  ELSE IF order.status # "settling" THEN "Order not in settling state"
  ELSE IF order.resolver # r THEN "Unauthorized resolver"
  ELSE "none"

\* getOrder, the status and resolver checks, verifyBothEscrowsFunded; the
\* copy gets the notified destination hash
NotifyRead(s) ==
  /\ FirstFreeReq(s)
  /\ \E r \in Resolvers, dstTxHash \in TxHashes, srcFunded \in BOOLEAN,
        dstBalance \in DstBalances, dstTokenAmount \in DstTokenAmounts :
       LET order == itemToOrderData(item)
           e == notifySettlementChecks(order, r)
           dstFunded == verifyEscrowBalance(dstBalance, dstTokenAmount)
           q == [IdleReq EXCEPT !.op = "notify", !.resolverAddress = r,
                   !.dstCovers = IF e = "none" /\ srcFunded /\ dstFunded
                                 THEN dstBalance >= expectedDstAmount(order)
                                 ELSE TRUE]
       IN IF e # "none"
          THEN /\ Refused(e)
               /\ req' = [req EXCEPT ![s] = [q EXCEPT !.pc = "done", !.error = e]]
               /\ UNCHANGED verified
          ELSE IF ~verifyBothEscrowsFunded(srcFunded, dstFunded)
          THEN /\ Refused("Fund verification failed")
               /\ req' = [req EXCEPT ![s] =
                    [q EXCEPT !.pc = "done", !.error = "Fund verification failed"]]
               /\ UNCHANGED verified
          ELSE /\ q.dstCovers \/ InFlight = 0
               /\ verified' = (verified \/ (srcFunded /\ dstFunded))
               /\ req' = [req EXCEPT ![s] =
                    [q EXCEPT !.pc = "save",
                       !.order = [order EXCEPT !.dstChainTxHash = dstTxHash]]]
  /\ UNCHANGED <<gasless, ids, item, commitments, now, tick, chain, bus, reaped>>

NotifySave(s) ==
  /\ req[s].op = "notify" /\ req[s].pc = "save"
  /\ item' = saveOrderPut(req[s].order)
  /\ req' = ReqWrites(s, [req[s] EXCEPT !.pc = "publishRead", !.order = EmptyItem,
                                          !.dstCovers = TRUE])
  /\ tick' = TickOthersStale
  /\ UNCHANGED <<gasless, ids, commitments, now, chain, bus, verified, reaped>>

\* publishSecretForCompetition: getOrder
PublishRead(s) ==
  /\ req[s].op = "notify" /\ req[s].pc = "publishRead"
  /\ IF item.exists
     THEN req' = [req EXCEPT ![s] =
            [req[s] EXCEPT !.pc = "publishSecret", !.stale = FALSE,
                           !.order = itemToOrderData(item)]]
     ELSE req' = [req EXCEPT ![s] = IdleReq]
  /\ UNCHANGED <<gasless, ids, item, commitments, now, tick, chain, bus, verified, reaped>>

\* getSecret; "Secret not found" ends the handler
PublishGetSecret(s) ==
  /\ req[s].op = "notify" /\ req[s].pc = "publishSecret"
  /\ IF getSecret(item)
     THEN req' = [req EXCEPT ![s] = [req[s] EXCEPT !.pc = "publishSave"]]
     ELSE req' = [req EXCEPT ![s] = IdleReq]
  /\ UNCHANGED <<gasless, ids, item, commitments, now, tick, chain, bus, verified, reaped>>

\* after the secretRevealDelay: the copy becomes competing and is saved
\* (competitionDeadline is no attribute of the item and is not stored)
PublishSave(s) ==
  /\ req[s].op = "notify" /\ req[s].pc = "publishSave"
  /\ item' = saveOrderPut([req[s].order EXCEPT !.status = "competing"])
  /\ req' = ReqWrites(s, [req[s] EXCEPT !.pc = "publishBroadcast",
                                          !.order = EmptyItem])
  /\ tick' = TickOthersStale
  /\ UNCHANGED <<gasless, ids, commitments, now, chain, bus, verified, reaped>>

\* broadcastSecret: the preimage is on the SecretsQueue
PublishBroadcast(s) ==
  /\ req[s].op = "notify" /\ req[s].pc = "publishBroadcast"
  /\ bus' = [bus EXCEPT !.secret = TRUE,
                        !.competitionDeadline = now + CompetitionWindow]
  /\ req' = [req EXCEPT ![s] = IdleReq]
  /\ UNCHANGED <<gasless, ids, item, commitments, now, tick, chain, verified, reaped>>

\* ---- checkExpiredOrders ----
\* The three queries of a tick read the status of the one item, so at most one
\* of them returns the order; a tick step runs the queries from where the tick
\* stands up to the first one that returns it.  TickTime is the tick's
\* "const now = Date.now()".
TickTime(t) == IF tick[t].pc = "idle" THEN now ELSE tick[t].now
TickAt(t, pcs) == (tick[t].pc = "idle" /\ FirstFreeTick(t)) \/ tick[t].pc \in pcs

\* getExpiredOrders(now) returns the order
TickExpiredQuery(t) ==
  /\ TickAt(t, {})
  /\ getExpiredOrders(item, TickTime(t))
  /\ tick' = [tick EXCEPT ![t] =
       [IdleTick EXCEPT !.pc = "expiredSave", !.now = TickTime(t),
          !.order = [itemToOrderData(item) EXCEPT !.status = "failed"]]]
  /\ UNCHANGED <<gasless, ids, item, commitments, now, req, chain, bus, verified, reaped>>

TickExpiredSave(t) ==
  /\ tick[t].pc = "expiredSave"
  /\ item' = saveOrderPut(tick[t].order)
  /\ tick' = TickWrites(t, [tick[t] EXCEPT !.pc = "lapsed", !.order = EmptyItem,
                                           !.stale = FALSE])
  /\ req' = ReqOthersStale
  /\ UNCHANGED <<gasless, ids, commitments, now, chain, bus, verified, reaped>>

\* getOrdersWithExpiredCommitments(now) returns the order
TickLapsedQuery(t) ==
  /\ TickAt(t, {"lapsed"})
  /\ tick[t].pc = "idle" => ~getExpiredOrders(item, TickTime(t))
  /\ getOrdersWithExpiredCommitments(item, TickTime(t))
  /\ tick' = [tick EXCEPT ![t] =
       [IdleTick EXCEPT !.pc = "lapsedSave", !.now = TickTime(t),
          !.order = [itemToOrderData(item) EXCEPT !.status = "rescue_available"]]]
  /\ UNCHANGED <<gasless, ids, item, commitments, now, req, chain, bus, verified, reaped>>

\* saveOrder; broadcastRescueOpportunity only logs
TickLapsedSave(t) ==
  /\ tick[t].pc = "lapsedSave"
  /\ item' = saveOrderPut(tick[t].order)
  /\ tick' = TickWrites(t, [tick[t] EXCEPT !.pc = "pending", !.order = EmptyItem,
                                           !.stale = FALSE])
  /\ req' = ReqOthersStale
  /\ UNCHANGED <<gasless, ids, commitments, now, chain, bus, verified, reaped>>

\* getOrdersPendingSecretReveal(now) returns the order
TickPendingQuery(t) ==
  /\ TickAt(t, {"lapsed", "pending"})
  /\ tick[t].pc = "idle" => ~getExpiredOrders(item, TickTime(t))
  /\ tick[t].pc \in {"idle", "lapsed"} =>
       ~getOrdersWithExpiredCommitments(item, TickTime(t))
  /\ getOrdersPendingSecretReveal(item, TickTime(t))
  /\ tick' = [tick EXCEPT ![t] =
       [IdleTick EXCEPT !.pc = "finalizeRead", !.now = TickTime(t)]]
  /\ UNCHANGED <<gasless, ids, item, commitments, now, req, chain, bus, verified, reaped>>

\* no query returns the order: the tick ends.  reaped records the status the
\* reaper left behind when it ran past the order's published competition
\* deadline.
TickDone(t) ==
  /\ TickAt(t, {"lapsed", "pending"})
  /\ tick[t].pc = "idle" => ~getExpiredOrders(item, TickTime(t))
  /\ tick[t].pc \in {"idle", "lapsed"} =>
       ~getOrdersWithExpiredCommitments(item, TickTime(t))
  /\ ~getOrdersPendingSecretReveal(item, TickTime(t))
  /\ tick[t].pc = "idle" =>
       /\ bus.secret /\ bus.competitionDeadline < now
       /\ reaped # item.status
  /\ reaped' = IF bus.secret /\ bus.competitionDeadline < TickTime(t)
               THEN item.status ELSE reaped
  /\ tick' = [tick EXCEPT ![t] = IdleTick]
  /\ UNCHANGED <<gasless, ids, item, commitments, now, req, chain, bus, verified>>

\* ---- finalizeSettlement ----
FinalizeRead(t) ==
  /\ tick[t].pc = "finalizeRead"
  /\ IF item.exists /\ HasSettlementTx(item)
     THEN tick' = [tick EXCEPT ![t] =
            [tick[t] EXCEPT !.pc = "confirm", !.stale = FALSE,
                            !.order = itemToOrderData(item)]]
     ELSE tick' = [tick EXCEPT ![t] = IdleTick]
  /\ UNCHANGED <<gasless, ids, item, commitments, now, req, chain, bus, verified, reaped>>

\* waitForConfirmations on both hashes of the copy; chain.unconfirmed records
\* that the chain gave no successful receipt for a hash it knows
FinalizeConfirm(t) ==
  /\ tick[t].pc = "confirm"
  /\ \E chainOk \in BOOLEAN :
       IF /\ waitForConfirmations(tick[t].order.srcChainTxHash, chainOk)
          /\ waitForConfirmations(tick[t].order.dstChainTxHash, chainOk)
       THEN /\ tick' = [tick EXCEPT ![t] = [tick[t] EXCEPT !.pc = "secret"]]
            /\ UNCHANGED chain
       ELSE /\ tick' = [tick EXCEPT ![t] =
                 [tick[t] EXCEPT !.pc = "failSave",
                                 !.error = "Failed to get transaction receipts"]]
            /\ chain' = [chain EXCEPT !.unconfirmed = @ \/ ~chainOk]
  /\ UNCHANGED <<gasless, ids, item, commitments, now, req, bus, verified, reaped>>

\* after the secretRevealDelay: getSecret
FinalizeGetSecret(t) ==
  /\ tick[t].pc = "secret"
  /\ IF getSecret(item)
     THEN tick' = [tick EXCEPT ![t] = [tick[t] EXCEPT !.pc = "reveal"]]
     ELSE tick' = [tick EXCEPT ![t] =
            [tick[t] EXCEPT !.pc = "failSave", !.error = "Secret not found"]]
  /\ UNCHANGED <<gasless, ids, item, commitments, now, req, chain, bus, verified, reaped>>

\* revealSecretOnDestination: rejected when the escrow is already claimed or
\* its deadline has passed; the copy becomes completed on a receipt
FinalizeReveal(t) ==
  /\ tick[t].pc = "reveal"
  /\ \E deadlineOk \in BOOLEAN :
       IF ~chain.claimed /\ deadlineOk
       THEN /\ chain' = [chain EXCEPT !.claimed = TRUE]
            /\ tick' = [tick EXCEPT ![t] =
                 [tick[t] EXCEPT !.pc = "completedSave",
                    !.order = [tick[t].order EXCEPT !.status = "completed",
                                 !.secretRevealedAt = now,
                                 !.secretRevealTxHash = "reveal"]]]
       ELSE /\ chain' = [chain EXCEPT !.revealRejected = TRUE]
            /\ tick' = [tick EXCEPT ![t] =
                 [tick[t] EXCEPT !.pc = "failSave",
                    !.error = IF chain.claimed THEN "Escrow already claimed"
                              ELSE "Escrow deadline has passed"]]
  /\ UNCHANGED <<gasless, ids, item, commitments, now, req, bus, verified, reaped>>

FinalizeCompletedSave(t) ==
  /\ tick[t].pc = "completedSave"
  /\ item' = saveOrderPut(tick[t].order)
  /\ tick' = TickWrites(t, [tick[t] EXCEPT !.pc = "completedMark", !.stale = FALSE])
  /\ req' = ReqOthersStale
  /\ UNCHANGED <<gasless, ids, commitments, now, chain, bus, verified, reaped>>

\* markSecretRevealed, then updateCommitmentStatus(resolver, "completed")
FinalizeCompletedMark(t) ==
  /\ tick[t].pc = "completedMark"
  /\ item' = markSecretRevealed(item, now)
  /\ commitments' = IF tick[t].order.resolver # "none"
                    THEN updateCommitmentStatus(commitments, tick[t].order.resolver,
                                                "completed")
                    ELSE commitments
  /\ tick' = TickWrites(t, IdleTick)
  /\ req' = ReqOthersStale
  /\ UNCHANGED <<gasless, ids, now, chain, bus, verified, reaped>>

\* the catch block: the copy becomes failed and is saved, then
\* updateCommitmentStatus(resolver, "failed")
FinalizeFailSave(t) ==
  /\ tick[t].pc = "failSave"
  /\ item' = saveOrderPut([tick[t].order EXCEPT !.status = "failed"])
  /\ commitments' = IF tick[t].order.resolver # "none"
                    THEN updateCommitmentStatus(commitments, tick[t].order.resolver,
                                                "failed")
                    ELSE commitments
  /\ tick' = TickWrites(t, IdleTick)
  /\ req' = ReqOthersStale
  /\ UNCHANGED <<gasless, ids, now, chain, bus, verified, reaped>>

\* ---- the destination escrow ----
\* claimWithSecret by a party that took the preimage from the Secret bus
ClaimWithSecret ==
  /\ bus.secret /\ ~chain.claimed
  /\ chain' = [chain EXCEPT !.claimed = TRUE]
  /\ UNCHANGED <<gasless, ids, item, commitments, now, req, tick, bus, verified, reaped>>

\* ---- the prices of an admission ----
\* the oracle's quote for the token pair (none, or the quote of a known pair)
\* and the minAcceptablePrice a maker asks
OracleQuotes == {Undefined, 10}
MinPrices == {9, 11}

\* "this.marketPrices.get(pairKey) || swapRequest.minAcceptablePrice"
marketPriceOf(quote, minAcceptablePrice) ==
  IF quote # Undefined THEN quote ELSE minAcceptablePrice

\* the price fields of the OrderData that an admission builds
orderPrices(quote, minAcceptablePrice) ==
  LET marketPrice == marketPriceOf(quote, minAcceptablePrice)
      auctionParams == createAuctionParams(minAcceptablePrice, marketPrice,
                                           AuctionDurationSeconds)
  IN [minAcceptablePrice |-> minAcceptablePrice, marketPrice |-> marketPrice,
      auctionStartPrice |-> auctionParams.startPrice,
      auctionEndPrice |-> auctionParams.endPrice]

\* ---- the orderId of an admission ----
\* createOrder: the allowance check, then the HTLCOrder is rebuilt from the
\* SwapRequest, without nonce and deadline, and hashed
CreateOrderId(k) ==
  /\ \E i \in Intents, quote \in OracleQuotes, minPrice \in MinPrices,
          read \in AllowanceReads :
       /\ allowanceCovers(read)
       /\ ids' = [ids EXCEPT ![k] =
         {[submitted |-> Submitted(i), allowanceRead |-> read,
           orderId |-> getOrderHash(createHTLCOrder(i, Undefined, Undefined, now),
                                    getDomain(i.srcChainId)),
           prices |-> orderPrices(quote, minPrice)]}]
  /\ UNCHANGED <<gasless, item, commitments, now, req, tick, chain, bus, verified, reaped>>

\* createOrderFromHTLC: the allowance check, then the signed HTLCOrder itself
\* is hashed
CreateOrderFromHTLCId(k) ==
  /\ \E h \in SignedOrders, quote \in OracleQuotes, minPrice \in MinPrices,
          read \in AllowanceReads :
       /\ allowanceCovers(read)
       /\ ids' = [ids EXCEPT ![k] =
         {[submitted |-> h, allowanceRead |-> read,
           orderId |-> getOrderHash(h, getDomain(h.intent.srcChainId)),
           prices |-> orderPrices(quote, minPrice)]}]
  /\ UNCHANGED <<gasless, item, commitments, now, req, tick, chain, bus, verified, reaped>>

\* ---- GaslessAuction: postAuction and getCurrentPrice ----
\* postAuction at block.timestamp = now; reverts for an auction that exists,
\* a zero duration or startPrice <= endPrice
PostAuction ==
  /\ ~gasless.auction.active
  /\ \E startPrice \in StartPrices, endPrice \in EndPrices, duration \in Durations :
       /\ duration # 0
       /\ startPrice > endPrice
       /\ gasless' = [gasless EXCEPT !.auction =
            [active |-> TRUE, startPrice |-> startPrice, endPrice |-> endPrice,
             startTime |-> now, duration |-> duration]]
  /\ UNCHANGED <<item, commitments, now, req, tick, chain, bus, verified, reaped, ids>>

\* a call of the view getCurrentPrice; calls records what each call returned
GetCurrentPrice ==
  /\ gasless' = [gasless EXCEPT !.calls = @ \cup
       {[timestamp |-> now,
         price |-> GaslessAuction_getCurrentPrice(gasless.auction, now)]}]
  /\ UNCHANGED <<item, commitments, now, req, tick, chain, bus, verified, reaped, ids>>

Next ==
  \/ Advance
  \/ \E s \in Reqs : AdmitSaveSecret(s)
  \/ \E s \in Reqs : AdmitSaveOrder(s)
  \/ \E s \in Reqs : OrderSecretRead(s)
  \/ \E s \in Reqs : OrderSecretInfo(s)
  \/ \E s \in Reqs : Respond(s)
  \/ \E s \in Reqs : CommitRefused(s)
  \/ \E s \in Reqs : CommitRead(s)
  \/ \E s \in Reqs : CommitSave(s)
  \/ \E s \in Reqs : CommitAudit(s)
  \/ \E s \in Reqs : EscrowsRead(s)
  \/ \E s \in Reqs : EscrowsSave(s)
  \/ \E s \in Reqs : MoveUserFundsTransfer(s)
  \/ \E s \in Reqs : MoveUserFundsSave(s)
  \/ \E s \in Reqs : NotifyRead(s)
  \/ \E s \in Reqs : NotifySave(s)
  \/ \E s \in Reqs : PublishRead(s)
  \/ \E s \in Reqs : PublishGetSecret(s)
  \/ \E s \in Reqs : PublishSave(s)
  \/ \E s \in Reqs : PublishBroadcast(s)
  \/ \E t \in Ticks : TickExpiredQuery(t)
  \/ \E t \in Ticks : TickExpiredSave(t)
  \/ \E t \in Ticks : TickLapsedQuery(t)
  \/ \E t \in Ticks : TickLapsedSave(t)
  \/ \E t \in Ticks : TickPendingQuery(t)
  \/ \E t \in Ticks : TickDone(t)
  \/ \E t \in Ticks : FinalizeRead(t)
  \/ \E t \in Ticks : FinalizeConfirm(t)
  \/ \E t \in Ticks : FinalizeGetSecret(t)
  \/ \E t \in Ticks : FinalizeReveal(t)
  \/ \E t \in Ticks : FinalizeCompletedSave(t)
  \/ \E t \in Ticks : FinalizeCompletedMark(t)
  \/ \E t \in Ticks : FinalizeFailSave(t)
  \/ ClaimWithSecret

Spec == Init /\ [][Next]_vars

\* The orderId computation on its own: admissions by two coordinator
\* instances at any times of the clock.
IdNext ==
  \/ Advance
  \/ \E k \in Coordinators : CreateOrderId(k)
  \/ \E k \in Coordinators : CreateOrderFromHTLCId(k)

IdSpec == Init /\ [][IdNext]_vars

\* The GaslessAuction price on its own: one auction posted at any time of the
\* clock, and price calls at any later time.
PriceNext == Advance \/ PostAuction \/ GetCurrentPrice

PriceSpec == Init /\ [][PriceNext]_vars

\* The service with one tick of the reaper at a time, under fair scheduling: the clock keeps going, the interval timer
\* of the constructor keeps firing checkExpiredOrders, and a handler or tick
\* that is waiting on the store or the chain is resumed.  The arrival of
\* requests and the resolvers' claims are left to the environment.
ReqStep(s) ==
  \/ AdmitSaveSecret(s) \/ AdmitSaveOrder(s)
  \/ OrderSecretRead(s) \/ OrderSecretInfo(s) \/ Respond(s)
  \/ CommitRefused(s) \/ CommitRead(s) \/ CommitSave(s) \/ CommitAudit(s)
  \/ EscrowsRead(s) \/ EscrowsSave(s)
  \/ MoveUserFundsTransfer(s) \/ MoveUserFundsSave(s)
  \/ NotifyRead(s) \/ NotifySave(s)
  \/ PublishRead(s) \/ PublishGetSecret(s) \/ PublishSave(s) \/ PublishBroadcast(s)

TickStep(t) ==
  \/ TickExpiredQuery(t) \/ TickExpiredSave(t)
  \/ TickLapsedQuery(t) \/ TickLapsedSave(t)
  \/ TickPendingQuery(t) \/ TickDone(t)
  \/ FinalizeRead(t) \/ FinalizeConfirm(t) \/ FinalizeGetSecret(t)
  \/ FinalizeReveal(t) \/ FinalizeCompletedSave(t) \/ FinalizeCompletedMark(t)
  \/ FinalizeFailSave(t)

\* a step of a request that is already being handled
ReqResumes(s) == req[s].pc # "idle" /\ ReqStep(s)

LiveNext ==
  \/ Advance
  \/ \E s \in Reqs : ReqStep(s)
  \/ TickStep("t1")
  \/ ClaimWithSecret

LiveSpec ==
  /\ Init /\ [][LiveNext]_vars
  /\ WF_vars(Advance)
  /\ WF_vars(TickStep("t1"))
  /\ \A s \in Reqs : WF_vars(ReqResumes(s))

\* ======================= properties =======================

Terminal == {"completed", "failed"}

\* a step of createOrder that stores the fresh order
AdmitStores == \E s \in Reqs : AdmitSaveOrder(s)

\* handler s / tick t performs a saveOrder of the copy it holds
ReqSaves(s) ==
  req[s].pc \in {"save", "moveSave", "publishSave"} /\ req'[s].pc # req[s].pc
TickSaves(t) ==
  /\ tick[t].pc \in {"expiredSave", "lapsedSave", "completedSave", "failSave"}
  /\ tick'[t].pc # tick[t].pc

\* C1: once the stored status is COMPLETED or FAILED, no step of commitResolver,
\* escrowsReady, moveUserFunds, notifySettlement, publishSecretForCompetition,
\* the reaper or finalizeSettlement changes it.
C1_TerminalStatusIsFinal ==
  [][(item.status \in Terminal /\ ~AdmitStores) => item'.status = item.status]_vars

\* C2: every change of the stored status follows an edge of the lifecycle.
LifecycleEdges ==
  {<<"active", "committed">>, <<"active", "failed">>,
   <<"committed", "settling">>, <<"committed", "rescue_available">>,
   <<"rescue_available", "committed">>, <<"settling", "competing">>,
   <<"competing", "completed">>, <<"competing", "failed">>,
   <<"competing", "rescue_available">>}

C2_StatusFollowsLifecycle ==
  [][(item'.status # item.status /\ ~AdmitStores)
       => <<item.status, item'.status>> \in LifecycleEdges]_vars

\* C3: of the commitResolver requests processed concurrently for an ACTIVE
\* order at most one is accepted; the others are rejected.
AcceptedCommits == {s \in Reqs : req[s].op = "commit" /\ req[s].pc \in {"save", "audit"}}

C3_OneCommitAccepted == Cardinality(AcceptedCommits) <= 1

\* C4: no handler writes back a copy of the order that it read before another
\* handler's write of that order.
C4_NoLostUpdate ==
  [][/\ \A s \in Reqs : ReqSaves(s) => ~req[s].stale
     /\ \A t \in Ticks : TickSaves(t) => ~tick[t].stale]_vars

\* C5: the preimage is on the SecretsQueue, or was sent to the destination
\* escrow, only after a notifySettlement found both escrows funded.
SecretLeft == bus.secret \/ chain.claimed

C5_SecretLeavesAfterVerification == SecretLeft => verified

C5_Witness_SecretRevealedByReaper == chain.claimed /\ verified

\* C6: a commit on an order in RESCUE_AVAILABLE is accepted.
C6_RescueCommitAccepted ==
  (item.exists /\ item.status = "rescue_available" /\ InFlight = 0)
    => ENABLED CommitRead("q1")

\* C7: with the order COMMITTED and the clock past its commitmentDeadline, the
\* next tick of the reaper takes the order, and its save stores RESCUE_AVAILABLE.
CommitmentLapsed ==
  item.exists /\ item.status = "committed" /\ item.commitmentDeadline < now

C7_LapsedCommitmentRescued ==
  /\ [](CommitmentLapsed /\ InFlight = 0 => ENABLED TickLapsedQuery("t1"))
  /\ [][\A t \in Ticks :
          /\ (tick[t].pc = "idle" /\ tick'[t].pc # "idle" /\ CommitmentLapsed)
               => tick'[t].pc = "lapsedSave"
          /\ (tick[t].pc = "lapsedSave" /\ tick'[t].pc # "lapsedSave")
               => item'.status = "rescue_available"]_vars

C7_Witness_RescueAvailable ==
  item.status = "rescue_available" /\ item.commitmentDeadline < now

\* C8: an order still ACTIVE past expiresAt is set to FAILED by the next tick,
\* and the expiry step changes only orders whose status is ACTIVE.
OrderExpired == item.exists /\ item.status = "active" /\ item.expiresAt < now

C8_ExpiryStepActsOnActiveOnly ==
  [][\A t \in Ticks :
       /\ (tick[t].pc = "idle" /\ tick'[t].pc # "idle" /\ OrderExpired)
            => tick'[t].pc = "expiredSave"
       /\ (tick[t].pc = "expiredSave" /\ tick'[t].pc # "expiredSave")
            => (item.status = "active" /\ item'.status = "failed")]_vars

\* C9: a tick of the reaper that runs past the competition deadline of an order
\* in COMPETING leaves the order COMPLETED or FAILED.
C9_CompetitionTimeoutEndsOrder ==
  [][\A t \in Ticks :
       (/\ tick[t].pc \in {"idle", "lapsed", "pending"} /\ tick'[t].pc = "idle"
        /\ reaped' # reaped
        /\ item.status = "competing")
         => item'.status \in Terminal]_vars

\* C10: once a notifySettlement has passed fund verification, and the chain has
\* confirmed every settlement hash and rejected no reveal, the order comes to
\* rest only as COMPLETED with the reveal recorded and the resolver's audit row
\* completed.  (At rest: no handler is running and the status is one the reaper
\* has no query for, so nothing the service does on its own changes the order.)
AtRest ==
  InFlight = 0 /\ item.status \notin {"none", "active", "committed", "settling"}

C10_VerifiedSettlementCompletes ==
  (verified /\ ~chain.revealRejected /\ ~chain.unconfirmed /\ AtRest) =>
     /\ item.status = "completed"
     /\ item.secretRevealedAt # Undefined
     /\ item.secretRevealTxHash # "none"
     /\ \E c \in commitments :
          c.resolverAddress = item.resolver /\ c.status = "completed"

\* C11: an admission of an intent whose order is already stored leaves the
\* stored order as it is (status, resolver, committedPrice, escrow addresses,
\* auction start) and publishes nothing.
AdmitStep == \E s \in Reqs : req[s].op = "admit" /\ req'[s] # req[s]

C11_ReadmitLeavesOrderUnchanged ==
  [][(item.status # "none" /\ AdmitStep)
       => (itemToOrderData(item') = itemToOrderData(item) /\ bus' = bus)]_vars

\* C12: two admissions of the same intent, at whatever times and on whichever
\* coordinator instance, compute the same orderId.
C12_OrderIdDependsOnIntentOnly ==
  \A a, b \in Coordinators : \A x \in ids[a], y \in ids[b] :
    x.submitted = y.submitted => x.orderId = y.orderId

\* C13: an admission whose signature does not recover to the maker, or whose
\* preimage does not hash to secretHash, is answered with an error and leaves
\* the store and the bus as they were.
C13_RejectedAdmitLeavesStore ==
  [][\A s \in Reqs :
       (req[s].pc = "idle" /\ req'[s].op = "admit"
          /\ ~(req'[s].sigOk /\ req'[s].hashOk))
         => (/\ req'[s].pc = "done" /\ req'[s].error # "none"
             /\ item' = item /\ commitments' = commitments /\ bus' = bus)]_vars

C13_Witness_HashMismatchRejected ==
  \E s \in Reqs :
    /\ req[s].op = "admit" /\ req[s].pc = "done"
    /\ req[s].sigOk /\ ~req[s].hashOk /\ req[s].error = "Secret hash mismatch"
    /\ ~item.exists

\* C14: an admission that failed on the allowance check has written neither an
\* order record nor a secret record (taken where no order was stored before).
C14_AllowanceFailureLeavesStore ==
  \A s \in Reqs :
    (/\ req[s].op = "admit" /\ req[s].pc = "done"
     /\ req[s].error = "Insufficient allowance"
     /\ item.status = "none")
      => (~item.exists /\ ~item.secret)

\* C15: when an admission succeeds, the stored order is ACTIVE with no
\* resolver and expiresAt = createdAt + orderDuration, the secret of the
\* orderId is stored, and an OrderBroadcast is on the bus.
AdmitSucceeds ==
  \E s \in Reqs : req[s].op = "admit" /\ req[s].pc = "allowance" /\ req'[s].pc = "idle"

C15_AdmitStoresOrderAndSecret ==
  [][AdmitSucceeds =>
       /\ item'.exists /\ item'.status = "active" /\ item'.resolver = "none"
       /\ item'.expiresAt = item'.createdAt + SwapRequest.orderDuration
       /\ getSecret(item')
       /\ bus'.orders]_vars

\* C19: the OrderBroadcast message holds neither the preimage nor the maker's
\* signature, at any depth.
Last(path) == path[Len(path)]

C19_BroadcastOmitsSecretAndSignature ==
  \A path \in bus.orderMessage : Last(path) \notin {"secret", "preimage", "signature"}

\* C16: the order has at most one commitment audit row with status active.
ActiveCommitments == {c \in commitments : c.status = "active"}

C16_OneActiveCommitment == Cardinality(ActiveCommitments) <= 1

\* C17: an escrowsReady on an order that is not COMMITTED, a notifySettlement
\* on an order that is not SETTLING, and either of them from a resolver other
\* than the order's, is answered with an error and leaves the stored order, the
\* audit rows, the chain and the bus as they were.
RequiredStatus(op) == IF op = "escrows" THEN "committed" ELSE "settling"

C17_WrongStateOrResolverRejected ==
  [][\A s \in Reqs :
       (/\ req[s].pc = "idle" /\ req'[s].op \in {"escrows", "notify"}
        /\ \/ item.status # RequiredStatus(req'[s].op)
           \/ item.resolver # req'[s].resolverAddress)
         => (/\ req'[s].pc = "done" /\ req'[s].error # "none"
             /\ item' = item /\ commitments' = commitments
             /\ chain' = chain /\ bus' = bus)]_vars

C17_Witness_OtherResolverRejected ==
  \E s \in Reqs :
    /\ req[s].op = "escrows" /\ req[s].pc = "done"
    /\ req[s].error = "Unauthorized resolver"
    /\ item.status = "committed" /\ item.resolver # req[s].resolverAddress

\* C18: an order with secretRevealedAt set has secretRevealTxHash set, is
\* COMPLETED, and the destination escrow was claimed with the preimage.
C18_RevealedAtImpliesCompleted ==
  item.secretRevealedAt # Undefined =>
    /\ item.secretRevealTxHash # "none"
    /\ item.status = "completed"
    /\ chain.claimed

\* C20: the orderSecret query answers with reveal information only when the
\* requester is the stored order's resolver and the order is COMPLETED; a query
\* by any other requester, or on an order in any other status, is answered with
\* an error and discloses nothing. The answer never carries the preimage.
C20_SecretQueryOnlyToResolverOfCompleted ==
  /\ [](\A s \in Reqs :
         /\ req[s].order.secret = FALSE
         /\ req[s].error # "none" => req[s].disclosed = "none")
  /\ [][\A s \in Reqs :
         /\ (req[s].disclosed = "none" /\ req'[s].disclosed # "none")
              => /\ req[s].op = "orderSecret"
                 /\ item.status = "completed"
                 /\ item.resolver = req[s].resolverAddress
                 /\ req'[s].disclosed = item.secretRevealTxHash
         /\ (/\ req[s].pc = "idle" /\ req'[s].op = "orderSecret"
             /\ \/ item.status # "completed"
                \/ item.resolver # req'[s].resolverAddress)
              => (/\ req'[s].pc = "done" /\ req'[s].error # "none"
                  /\ req'[s].disclosed = "none")]_vars

C20_Witness_RevealInfoReturned ==
  \E s \in Reqs :
    /\ req[s].op = "orderSecret" /\ req[s].pc = "done"
    /\ req[s].disclosed = "reveal"
    /\ item.status = "completed" /\ item.resolver = req[s].resolverAddress

\* C21: the calls of getCurrentPrice on one auction that returned a price never
\* return a higher price at a later time, never return less than endPrice, and
\* every call at or after startTime + duration returns exactly endPrice; a call
\* before that time returns startPrice minus the truncated price drop.
C21_PriceFallsToEndPrice ==
  LET a == gasless.auction
      returned == {c \in gasless.calls : c.price # Revert}
  IN /\ \A c1, c2 \in returned :
          c1.timestamp <= c2.timestamp => c1.price >= c2.price
     /\ \A c \in returned : c.price >= a.endPrice
     /\ \A c \in gasless.calls :
          (a.active /\ c.timestamp >= a.startTime + a.duration) => c.price = a.endPrice
     /\ \A c \in returned :
          c.timestamp < a.startTime + a.duration =>
            c.price = a.startPrice
              - ((a.startPrice - a.endPrice) * (c.timestamp - a.startTime)) \div a.duration

C21_Witness_PriceFellThenEnded ==
  \E c1, c2, c3 \in gasless.calls :
    /\ c1.timestamp < c2.timestamp /\ c2.timestamp < c3.timestamp
    /\ c1.price > c2.price /\ c2.price > c3.price
    /\ c3.price = gasless.auction.endPrice
    /\ c3.timestamp >= gasless.auction.startTime + gasless.auction.duration

\* C22: every order that the active-orders listing returns has status active.
C22_ListingReturnsActiveOnly ==
  \A order \in getAllActiveOrders(item) : order.status = "active"

NotCommittable == {"committed", "settling", "competing", "completed", "failed"}

C24_CommitRejectedLeavesStore ==
  [][\A s \in Reqs :
       (/\ req[s].pc = "idle" /\ req'[s].op = "commit"
        /\ \/ item.status \in NotCommittable
           \/ req'[s].acceptedPrice < AuctionOf(item).endPrice
           \/ req'[s].acceptedPrice > getCurrentPrice(AuctionOf(item), now))
         => (/\ req'[s].pc = "done" /\ req'[s].error # "none"
             /\ item' = item /\ commitments' = commitments)]_vars

C24_Witness_StalePriceRejected ==
  \E s \in Reqs :
    /\ req[s].op = "commit" /\ req[s].pc = "done"
    /\ req[s].error = "Invalid price" /\ req[s].acceptedPrice = 10
    /\ item.status = "active" /\ now > item.createdAt

\* C25: the reaper's move of an order from COMMITTED to RESCUE_AVAILABLE sets
\* the audit rows of the defaulting resolver to failed in the same step, and
\* an order in RESCUE_AVAILABLE has no audit row with status active.
C25_LapseFailsAuditRow ==
  /\ [](item.status = "rescue_available"
          => \A c \in commitments : c.status # "active")
  /\ [][\A t \in Ticks :
          (tick[t].pc = "lapsedSave" /\ tick'[t].pc # "lapsedSave")
            => \A c \in commitments' :
                 c.resolverAddress = tick[t].order.resolver => c.status = "failed"]_vars

\* C26: escrowsReady records the escrow addresses and goes on to the user-fund
\* move only when both escrows received their safety deposit; with a deposit
\* missing it is answered with an error and the stored order stays COMMITTED
\* with no escrow addresses.
C26_EscrowsReadyNeedsDeposits ==
  [][\A s \in Reqs :
       /\ (req[s].op = "escrows" /\ req[s].pc = "save" /\ req'[s].pc = "moveRead")
            => req[s].depositsOk
       /\ (req[s].pc = "idle" /\ req'[s].op = "escrows" /\ ~req'[s].depositsOk)
            => req'[s].pc = "done" /\ req'[s].error # "none" /\ item' = item]_vars

\* C27: when the chain rejects the user-fund transfer of an escrowsReady, the
\* stored order is as it was before the call: COMMITTED, with no escrow
\* addresses, no userFundsMovedAt and no source transaction.
C27_TransferFailureLeavesOrder ==
  [][\A s \in Reqs :
       (/\ req[s].op = "escrows" /\ req[s].pc = "moveRead"
        /\ req'[s].pc = "done" /\ req'[s].error = "Failed to transfer user funds")
         => /\ item'.status = "committed"
            /\ item'.srcEscrowAddress = "none" /\ item'.dstEscrowAddress = "none"
            /\ item'.userFundsMovedAt = Undefined
            /\ item'.srcChainTxHash = "none"]_vars

\* C28: a notifySettlement by the order's resolver on a SETTLING order whose
\* escrows are short is answered with an error and leaves the stored order
\* and the bus as they were (no destination hash stored, no secret published);
\* and the order keeps waiting in SETTLING, so that a later notifySettlement is
\* accepted: while no request is being handled, nothing takes an order that
\* has no destination hash out of SETTLING.
NotifyShortfallRejected ==
  \A s \in Reqs :
    (/\ req[s].pc = "idle" /\ req'[s].op = "notify" /\ req'[s].pc = "done"
     /\ item.status = "settling" /\ item.resolver = req'[s].resolverAddress)
      => /\ req'[s].error = "Fund verification failed"
         /\ item' = item /\ bus' = bus /\ chain' = chain

AwaitingNotification ==
  item.exists /\ item.status = "settling" /\ item.dstChainTxHash = "none"

C28_ShortfallKeepsOrderSettling ==
  [][/\ NotifyShortfallRejected
     /\ (AwaitingNotification /\ \A s \in Reqs : req[s].pc = "idle")
          => item'.status = "settling"]_vars

\* C29: a notifySettlement that passed fund verification stores the notified
\* destination hash, and its publishSecretForCompetition ends with the order
\* stored as COMPETING and the preimage on the Secret bus with
\* competitionDeadline = now + 5 min.
Publishing == {"publishRead", "publishSecret", "publishSave", "publishBroadcast"}

C29_VerifiedNotifyStartsCompetition ==
  [][\A s \in Reqs :
       /\ (req[s].op = "notify" /\ req[s].pc = "save" /\ req'[s].pc # "save")
            => /\ item'.dstChainTxHash = req[s].order.dstChainTxHash
               /\ item'.dstChainTxHash # "none"
       /\ (/\ req[s].op = "notify" /\ req[s].pc \in Publishing
           /\ req'[s].pc \in {"idle", "done"})
            => /\ item'.status = "competing"
               /\ bus'.secret
               /\ bus'.competitionDeadline = now + CompetitionWindow]_vars

\* C30: when the Controller's reveal is rejected because the destination escrow
\* was already claimed, finalizeSettlement stores the order as COMPLETED, not
\* FAILED, and marks no audit row of the resolver failed.
C30_AlreadyClaimedCompletesOrder ==
  [][\A t \in Ticks :
       (/\ tick[t].pc = "failSave" /\ tick[t].error = "Escrow already claimed"
        /\ tick'[t].pc # "failSave")
         => /\ item'.status = "completed"
            /\ \A c \in commitments' :
                 c.status = "failed" => c \in commitments]_vars

\* C31: one failed attempt to get the receipts of two hashes the chain knows
\* does not by itself move the order to FAILED: the catch-block save that
\* follows a single failed waitForConfirmations does not store FAILED.
C31_TransientFailureIsRetried ==
  [][\A t \in Ticks :
       (/\ tick[t].pc = "failSave" /\ tick'[t].pc # "failSave"
        /\ tick[t].error = "Failed to get transaction receipts"
        /\ tick[t].order.srcChainTxHash = "good"
        /\ tick[t].order.dstChainTxHash = "good")
         => item'.status # "failed"]_vars

\* C32: the prices of every admitted order satisfy auctionStartPrice >=
\* marketPrice >= auctionEndPrice >= minAcceptablePrice > 0, with
\* auctionStartPrice = max(marketPrice, minAcceptablePrice) and auctionEndPrice
\* = minAcceptablePrice, whatever the oracle quotes.
C32_AuctionPricesOrdered ==
  \A k \in Coordinators : \A x \in ids[k] :
    LET p == x.prices IN
    /\ p.auctionStartPrice >= p.marketPrice
    /\ p.marketPrice >= p.auctionEndPrice
    /\ p.auctionEndPrice >= p.minAcceptablePrice
    /\ p.minAcceptablePrice > 0
    /\ p.auctionStartPrice =
         (IF p.marketPrice > p.minAcceptablePrice THEN p.marketPrice
          ELSE p.minAcceptablePrice)
    /\ p.auctionEndPrice = p.minAcceptablePrice

\* C33: transferUserFunds is submitted at most once for the order: a
\* moveUserFunds submits the transfer only when no earlier transfer is stored
\* on the order and no other handler has just made one.
FundsTransferred ==
  \/ item.srcChainTxHash # "none"
  \/ \E x \in Reqs : req[x].pc = "moveSave"

C33_UserFundsPulledOnce ==
  [][\A s \in Reqs :
       (req[s].pc = "moveRead" /\ req'[s].pc = "moveSave") => ~FundsTransferred]_vars

\* C34: no two finalizeSettlement runs for the order both reach
\* revealSecretOnDestination, and a run of finalizeSettlement never overwrites
\* the COMPLETED or FAILED outcome that an earlier run stored.
RelayerRevealed ==
  \/ item.secretRevealTxHash # "none"
  \/ \E u \in Ticks : tick[u].pc \in {"completedSave", "completedMark"}

C34_OneRevealPerOrder ==
  [][\A t \in Ticks :
       /\ (tick[t].pc = "reveal" /\ tick'[t].pc # "reveal") => ~RelayerRevealed
       /\ (/\ tick[t].pc \in {"completedSave", "failSave"} /\ tick'[t].pc # tick[t].pc
           /\ item.status \in Terminal)
            => item'.status = item.status]_vars

C36_SecretSurvivesOrderSaves ==
  [][/\ getSecret(item) => getSecret(item')
     /\ \A s \in Reqs :
          (req[s].op = "notify" /\ req[s].pc = "publishSecret"
           /\ req'[s].pc # "publishSecret")
            => getSecret(item)]_vars

\* C37: under fair scheduling no order remains RESCUE_AVAILABLE or COMPETING
\* forever: again and again the order is in another status.
C37_OrderEventuallyEnds ==
  []<>(item.status \notin {"rescue_available", "competing"})

\* C38: a stored order that is COMMITTED, SETTLING or COMPETING has resolver,
\* committedPrice and commitmentDeadline; one that is SETTLING or COMPETING
\* also has both escrow addresses, userFundsMovedAt and the source hash; one
\* that is COMPETING also has the destination hash and competitionDeadline; one
\* that is ACTIVE has no resolver.
C38_FieldsPresentPerStatus ==
  item.exists =>
    /\ item.status \in {"committed", "settling", "competing"} =>
         /\ item.resolver # "none"
         /\ item.committedPrice # Undefined
         /\ item.commitmentDeadline # Undefined
    /\ item.status \in {"settling", "competing"} =>
         /\ item.srcEscrowAddress # "none" /\ item.dstEscrowAddress # "none"
         /\ item.userFundsMovedAt # Undefined
         /\ item.srcChainTxHash # "none"
    /\ item.status = "competing" =>
         /\ item.dstChainTxHash # "none"
         /\ storedCompetitionDeadline(item) # Undefined
    /\ item.status = "active" => item.resolver = "none"

\* C39: the order-expiry step of the reaper does not store FAILED over an
\* order that is stored as COMMITTED and whose commitResolver has returned.
CommitReturned ==
  /\ item.exists /\ item.status = "committed"
  /\ \A s \in Reqs : ~(req[s].op = "commit" /\ req[s].pc \in {"save", "audit"})

C39_ExpiryStepSparesCommittedOrder ==
  [][\A t \in Ticks :
       (tick[t].pc = "expiredSave" /\ tick'[t].pc # "expiredSave" /\ CommitReturned)
         => item'.status # "failed"]_vars

\* C40: every admitted order was admitted on an allowance that was read from
\* the chain and is at least srcAmount.
C40_AdmitNeedsAllowanceRead ==
  \A k \in Coordinators : \A x \in ids[k] :
    x.allowanceRead # ReadFailed /\ x.allowanceRead >= SrcAmount
====
